---------------------------- MODULE Spec2Model ----------------------------
(***************************************************************************)
(* A model of KlpbbsScraper (src/苦力怕脚本获取.py): the crawl loop of      *)
(* scrape, the per-thread parsing of _parse_page_with_soup, the date       *)
(* normalisation of _parse_human_readable_date and the report stage of     *)
(* _save_to_excel.                                                         *)
(*                                                                         *)
(* Text is modelled character by character: a string is a sequence of      *)
(* one-character tokens.  The Chinese characters of the source are written *)
(* in pinyin: "zuo" "tian" (yesterday), "qian" "tian" (the day before      *)
(* yesterday), "xiao" "shi" "qian" (hours ago), "fen" "zhong" "qian"       *)
(* (minutes ago), "tian" "qian" (days ago).                                *)
(*                                                                         *)
(* A datetime is [ord, sec]: the proleptic Gregorian ordinal of its date   *)
(* (0001-01-01 is 1, as datetime.toordinal) and the second of the day.     *)
(* Microseconds are left out.  A timedelta is [days, seconds] normalised   *)
(* as Python normalises it (0 <= seconds < 86400).                         *)
(***************************************************************************)
EXTENDS Integers, Sequences, FiniteSets, TLC

---------------------------------------------------------------------------
(* Characters and strings                                                  *)

DigitChars == <<"0", "1", "2", "3", "4", "5", "6", "7", "8", "9">>

IsDigit(c) == \E i \in 1..10 : DigitChars[i] = c

DigitVal(c) == (CHOOSE i \in 1..10 : DigitChars[i] = c) - 1

IsSpace(c) == c = " "

\* str.strip(): leading and trailing whitespace removed.
RECURSIVE LStrip(_)
LStrip(s) == IF s # <<>> /\ IsSpace(Head(s)) THEN LStrip(Tail(s)) ELSE s

RECURSIVE RStrip(_)
RStrip(s) ==
  IF s # <<>> /\ IsSpace(s[Len(s)]) THEN RStrip(SubSeq(s, 1, Len(s) - 1)) ELSE s

Strip(s) == RStrip(LStrip(s))

\* pat in s
Contains(s, pat) ==
  \E i \in 1..(Len(s) - Len(pat) + 1) : SubSeq(s, i, i + Len(pat) - 1) = pat

AllDigits(s) == \A i \in 1..Len(s) : IsDigit(s[i])

\* int(s) of a non-empty string of digits.
RECURSIVE ToInt(_)
ToInt(s) ==
  IF s = <<>> THEN 0
  ELSE 10 * ToInt(SubSeq(s, 1, Len(s) - 1)) + DigitVal(s[Len(s)])

\* The decimal digits of n >= 0, zero-padded to at least width characters.
RECURSIVE Pad(_, _)
Pad(n, width) ==
  IF n < 10 /\ width <= 1 THEN <<DigitChars[n + 1]>>
  ELSE Pad(n \div 10, width - 1) \o <<DigitChars[(n % 10) + 1]>>

\* The result of a search that finds nothing (re.search returns None).
NoMatch == <<"NoMatch">>

\* re.search(r'(\d+)', s).group(1): the first maximal run of digits.
FirstDigitRun(s) ==
  IF \A i \in 1..Len(s) : ~IsDigit(s[i]) THEN NoMatch
  ELSE LET i == CHOOSE k \in 1..Len(s) :
                  IsDigit(s[k]) /\ \A m \in 1..(k - 1) : ~IsDigit(s[m])
           j == CHOOSE k \in i..Len(s) :
                  /\ \A m \in i..k : IsDigit(s[m])
                  /\ (k = Len(s) \/ ~IsDigit(s[k + 1]))
       IN SubSeq(s, i, j)

IsTimeAt(s, i) ==
  /\ i + 4 <= Len(s)
  /\ IsDigit(s[i]) /\ IsDigit(s[i + 1]) /\ s[i + 2] = ":"
  /\ IsDigit(s[i + 3]) /\ IsDigit(s[i + 4])

\* re.search(r'(\d{2}:\d{2})', s).group(1): the first dd:dd.
FindTime(s) ==
  IF \A i \in 1..Len(s) : ~IsTimeAt(s, i) THEN NoMatch
  ELSE LET i == CHOOSE k \in 1..Len(s) :
                  IsTimeAt(s, k) /\ \A m \in 1..(k - 1) : ~IsTimeAt(s, m)
       IN SubSeq(s, i, i + 4)

\* "".join(filter(str.isdigit, text))
RECURSIVE KeepDigits(_)
KeepDigits(s) ==
  IF s = <<>> THEN <<>>
  ELSE (IF IsDigit(Head(s)) THEN <<Head(s)>> ELSE <<>>) \o KeepDigits(Tail(s))

---------------------------------------------------------------------------
(* Calendar: datetime.date, datetime.datetime, timedelta                   *)

IsLeap(y) == y % 4 = 0 /\ (y % 100 # 0 \/ y % 400 = 0)

DaysInMonthTable == <<31, 28, 31, 30, 31, 30, 31, 31, 30, 31, 30, 31>>

DaysBeforeMonthTable == <<0, 31, 59, 90, 120, 151, 181, 212, 243, 273, 304, 334>>

DaysInMonth(y, m) ==
  IF m = 2 /\ IsLeap(y) THEN 29 ELSE DaysInMonthTable[m]

DaysBeforeYear(y) ==
  (y - 1) * 365 + ((y - 1) \div 4) - ((y - 1) \div 100) + ((y - 1) \div 400)

DaysBeforeMonth(y, m) ==
  DaysBeforeMonthTable[m] + (IF m > 2 /\ IsLeap(y) THEN 1 ELSE 0)

\* date(y, m, d).toordinal()
YmdToOrd(y, m, d) == DaysBeforeYear(y) + DaysBeforeMonth(y, m) + d

\* date.fromordinal(n) as <<year, month, day>>
OrdToYmd(n) ==
  LET n0   == n - 1
      n400 == n0 \div 146097
      r400 == n0 % 146097
      n100 == r400 \div 36524
      r100 == r400 % 36524
      n4   == r100 \div 1461
      r4   == r100 % 1461
      n1   == r4 \div 365
      r1   == r4 % 365
      year == n400 * 400 + 1 + n100 * 100 + n4 * 4 + n1
  IN IF n1 = 4 \/ n100 = 4 THEN <<year - 1, 12, 31>>
     ELSE LET leap  == n1 = 3 /\ (n4 # 24 \/ n100 = 3)
              extra(m) == IF m > 2 /\ leap THEN 1 ELSE 0
              m0    == (r1 + 50) \div 32
              p0    == DaysBeforeMonthTable[m0] + extra(m0)
              month == IF p0 > r1 THEN m0 - 1 ELSE m0
              prec  == DaysBeforeMonthTable[month] + extra(month)
          IN <<year, month, r1 - prec + 1>>

MinOrd == 1
MaxOrd == 3652059

SecondsPerDay == 86400

DateTime(y, m, d, H, M, S) ==
  [ord |-> YmdToOrd(y, m, d), sec |-> H * 3600 + M * 60 + S]

\* str(date): 'YYYY-MM-DD'
DateStr(ord) ==
  LET ymd == OrdToYmd(ord)
  IN Pad(ymd[1], 4) \o <<"-">> \o Pad(ymd[2], 2) \o <<"-">> \o Pad(ymd[3], 2)

\* Outcomes that are no datetime: None, and the exceptions raised.
Overflow == [err |-> "OverflowError"]
None == [err |-> "None"]

\* timedelta(days, seconds) normalised
TimeDelta(days, seconds) ==
  [days |-> days + (seconds \div SecondsPerDay), seconds |-> seconds % SecondsPerDay]

\* timedelta(days=n), timedelta(hours=n), timedelta(minutes=n)
OfDays(n) == [days |-> n, seconds |-> 0]

OfHours(n) == [days |-> n \div 24, seconds |-> (n % 24) * 3600]

OfMinutes(n) == [days |-> n \div 1440, seconds |-> (n % 1440) * 60]

\* datetime - timedelta; OverflowError outside date.min .. date.max
DtMinus(dt, td) ==
  LET s == dt.sec - td.seconds
      o == dt.ord - td.days + (s \div SecondsPerDay)
  IN IF o < MinOrd \/ o > MaxOrd THEN Overflow
     ELSE [ord |-> o, sec |-> s % SecondsPerDay]

\* datetime - datetime
DtDiff(a, b) == TimeDelta(a.ord - b.ord, a.sec - b.sec)

\* timedelta.total_seconds()
TotalSeconds(td) == td.days * SecondsPerDay + td.seconds

---------------------------------------------------------------------------
(* datetime.strptime                                                       *)

ValueError == [err |-> "ValueError"]
AttributeError == [err |-> "AttributeError"]

\* A field that did not parse.
BadField == [ok |-> FALSE, val |-> 0]

Field(n) == [ok |-> TRUE, val |-> n]

\* s.split(sep): the pieces of s between occurrences of the character sep.
RECURSIVE Split(_, _)
Split(s, sep) ==
  IF \A i \in 1..Len(s) : s[i] # sep THEN <<s>>
  ELSE LET i == CHOOSE k \in 1..Len(s) :
                  s[k] = sep /\ \A m \in 1..(k - 1) : s[m] # sep
       IN <<SubSeq(s, 1, i - 1)>> \o Split(SubSeq(s, i + 1, Len(s)), sep)

NonEmpty(pieces) ==
  LET RECURSIVE keep(_)
      keep(q) == IF q = <<>> THEN <<>>
                 ELSE (IF Head(q) = <<>> THEN <<>> ELSE <<Head(q)>>) \o keep(Tail(q))
  IN keep(pieces)

IsNumber(s, minLen, maxLen) ==
  Len(s) >= minLen /\ Len(s) <= maxLen /\ AllDigits(s)

\* The date of '%Y-%m-%d' as an ordinal.
StrptimeYmd(s) ==
  LET p == Split(s, "-")
  IN IF Len(p) = 3 /\ IsNumber(p[1], 4, 4) /\ IsNumber(p[2], 1, 2)
          /\ IsNumber(p[3], 1, 2)
     THEN LET y == ToInt(p[1])
              m == ToInt(p[2])
              d == ToInt(p[3])
          IN IF y >= 1 /\ m >= 1 /\ m <= 12 /\ d >= 1 /\ d <= DaysInMonth(y, m)
             THEN Field(YmdToOrd(y, m, d)) ELSE BadField
     ELSE BadField

\* The second of the day of '%H:%M'.
StrptimeHm(s) ==
  LET p == Split(s, ":")
  IN IF Len(p) = 2 /\ IsNumber(p[1], 1, 2) /\ IsNumber(p[2], 1, 2)
          /\ ToInt(p[1]) <= 23 /\ ToInt(p[2]) <= 59
     THEN Field(ToInt(p[1]) * 3600 + ToInt(p[2]) * 60) ELSE BadField

\* datetime.strptime(s, '%Y-%m-%d')
StrptimeDate(s) ==
  LET o == StrptimeYmd(s)
  IN IF o.ok THEN [ord |-> o.val, sec |-> 0] ELSE ValueError

\* datetime.strptime(s, '%Y-%m-%d %H:%M'): the blank of the format matches
\* one or more blanks of s.
StrptimeDateTime(s) ==
  LET p == NonEmpty(Split(s, " "))
  IN IF Len(p) = 2 /\ s[1] # " " /\ s[Len(s)] # " "
     THEN LET o == StrptimeYmd(p[1])
              t == StrptimeHm(p[2])
          IN IF o.ok /\ t.ok THEN [ord |-> o.val, sec |-> t.val]
             ELSE ValueError
     ELSE ValueError

---------------------------------------------------------------------------
(* KlpbbsScraper._parse_human_readable_date                                *)

Yesterday == <<"zuo", "tian">>
DayBeforeYesterday == <<"qian", "tian">>
HoursAgo == <<"xiao", "shi", "qian">>
MinutesAgo == <<"fen", "zhong", "qian">>
DaysAgo == <<"tian", "qian">>

\* The branch of lines 119-126: the date of anchor minus back days at the
\* dd:dd found in s.
RelativeDay(s, anchor, back) ==
  LET t == FindTime(s)
  IN IF t = NoMatch THEN AttributeError
     ELSE IF anchor.ord - back < MinOrd THEN Overflow
     ELSE StrptimeDateTime(DateStr(anchor.ord - back) \o <<" ">> \o t)

\* The branches of lines 127-135: anchor minus the first number of s in the
\* unit of the branch.
HoursBefore(s, anchor) ==
  LET n == FirstDigitRun(s)
  IN IF n = NoMatch THEN AttributeError ELSE DtMinus(anchor, OfHours(ToInt(n)))

MinutesBefore(s, anchor) ==
  LET n == FirstDigitRun(s)
  IN IF n = NoMatch THEN AttributeError ELSE DtMinus(anchor, OfMinutes(ToInt(n)))

DaysBefore(s, anchor) ==
  LET n == FirstDigitRun(s)
  IN IF n = NoMatch THEN AttributeError ELSE DtMinus(anchor, OfDays(ToInt(n)))

\* The try block of lines 118-137.
FirstParse(s, anchor) ==
  IF Contains(s, Yesterday) THEN RelativeDay(s, anchor, 1)
  ELSE IF Contains(s, DayBeforeYesterday) THEN RelativeDay(s, anchor, 2)
  ELSE IF Contains(s, HoursAgo) THEN HoursBefore(s, anchor)
  ELSE IF Contains(s, MinutesAgo) THEN MinutesBefore(s, anchor)
  ELSE IF Contains(s, DaysAgo) THEN DaysBefore(s, anchor)
  ELSE StrptimeDateTime(s)

\* The except clause of lines 138-142.
OrDateOnly(r, s) ==
  IF r \in {ValueError, AttributeError}
  THEN (IF StrptimeYmd(s).ok THEN StrptimeDate(s) ELSE None)
  ELSE r

Stripped(s, anchor) == OrDateOnly(FirstParse(s, anchor), s)

\* _parse_human_readable_date(date_str) with self.now = anchor: a datetime,
\* None, or OverflowError (which the method does not catch).
ParseHumanReadableDate(date_str, anchor) == Stripped(Strip(date_str), anchor)

\* _format_timedelta(td) as <<number, unit, ...>>
FormatTimedelta(td) ==
  LET hours   == td.seconds \div 3600
      minutes == (td.seconds % 3600) \div 60
  IN IF td.days > 0 THEN <<td.days, "tian", hours, "xiaoshi">>
     ELSE IF hours > 0 THEN <<hours, "xiaoshi", minutes, "fenzhong">>
     ELSE <<minutes, "fenzhong">>

---------------------------------------------------------------------------
(* KlpbbsScraper._parse_page_with_soup, one thread (lines 171-212)         *)

\* select_one found no tag.
NoTag == <<"NoTag">>

NA == <<"N", "/", "A">>

Unparseable == <<"unparseable">>

\* float('inf') and finite helper values.  A finite helper value is held as
\* the whole seconds of the elapsed time: the code divides them by 86400
\* (days) or 3600 (hours), which changes no comparison and no ratio.
Inf == [fin |-> FALSE, val |-> 0]

Finite(n) == [fin |-> TRUE, val |-> n]

SiteRoot == <<"https://klpbbs.com/">>

BaseUrl == SiteRoot \o <<"home.php?mod=space&do=thread">>

\* urljoin(base, rel) for a relative file name, and for the empty string.
Urljoin(base, rel) == IF rel = <<>> THEN base ELSE SiteRoot \o rel

Max(a, b) == IF a >= b THEN a ELSE b

\* round(n / d) for n >= 0, d > 0, a tie going to the even neighbour.
RoundHalfEven(n, d) ==
  LET q == n \div d
      r == n % d
  IN IF 2 * r < d THEN q
     ELSE IF 2 * r > d THEN q + 1
     ELSE IF q % 2 = 0 THEN q ELSE q + 1

\* round(views / days_diff, 2) in hundredths.
Round2(views, days_diff) == RoundHalfEven(100 * views, days_diff)

\* Line 192 with one added to the day count to keep it from being zero.
DaysDiffPlusOne(anchor, creation_date) ==
  Max(DtDiff(anchor, creation_date).days + 1, 1)

\* max((self.now - creation_date).days, 1)
DaysDiff(anchor, creation_date) ==
  Max(DtDiff(anchor, creation_date).days, 1)

Skipped == [ok |-> FALSE]

\* Lines 188-195: daily_views, and the label and helper value of the time
\* since publication.
PublicationFields(views, creation_date, anchor) ==
  IF creation_date # None
  THEN [daily_views |-> Round2(views, DaysDiff(anchor, creation_date)),
        label |-> FormatTimedelta(DtDiff(anchor, creation_date)),
        helper |-> Finite(TotalSeconds(DtDiff(anchor, creation_date)))]
  ELSE [daily_views |-> 0, label |-> Unparseable, helper |-> Inf]

\* Lines 197-202: the label and helper value of the time since the last reply.
ReplyFields(last_reply_datetime, anchor) ==
  IF last_reply_datetime # None
  THEN [label |-> FormatTimedelta(DtDiff(anchor, last_reply_datetime)),
        helper |-> Finite(TotalSeconds(DtDiff(anchor, last_reply_datetime)))]
  ELSE [label |-> Unparseable, helper |-> Inf]

\* Lines 204-211: the dictionary appended to self.data.
Record(title, views, creation_date_str, pub, last_reply_date_str, reply, url) ==
  [title |-> title,
   views |-> views,
   daily_views |-> pub.daily_views,
   creation_date_str |-> creation_date_str,
   pub_str |-> pub.label,
   pub_days |-> pub.helper,
   last_reply_date_str |-> last_reply_date_str,
   reply_str |-> reply.label,
   reply_hours |-> reply.helper,
   url |-> url]

\* Lines 180-211 once the texts are read: Skipped when int('') raises
\* ValueError or a date raises OverflowError (the except clause of line 212
\* logs it and the loop goes on), else the record.
ThreadResult(title, url, digits, creation_date_str, creation_date, last_reply_date_str, last_reply_datetime, anchor) ==
  IF digits = <<>> \/ creation_date = Overflow \/ last_reply_datetime = Overflow
  THEN Skipped
  ELSE [ok |-> TRUE,
        rec |-> Record(title, ToInt(digits), creation_date_str,
                       PublicationFields(ToInt(digits), creation_date, anchor),
                       last_reply_date_str,
                       ReplyFields(last_reply_datetime, anchor), url)]

\* Lines 172-175: the title, or 'N/A' without the title link.
TitleOf(thread) == IF thread.tit # NoTag THEN Strip(thread.tit) ELSE NA

UrlOf(thread) ==
  Urljoin(BaseUrl, IF thread.tit # NoTag THEN thread.href ELSE <<>>)

\* Lines 176-177
CreationDateStr(thread) == IF thread.dte # NoTag THEN Strip(thread.dte) ELSE NA

\* Lines 178-180: the digits of the view count, '0' without the tag.
ViewDigits(thread) ==
  KeepDigits(IF thread.vie # NoTag THEN thread.vie ELSE <<"0">>)

\* Lines 181-186: the title attribute of the span, else the text of the link.
LastReplyDateStr(thread) ==
  IF thread.span_title # NoTag THEN Strip(thread.span_title)
  ELSE IF thread.lastpost # NoTag THEN Strip(thread.lastpost)
  ELSE NA

\* The dates of a thread read, lines 190 and 198.
WithDates(title, url, digits, creation_date_str, last_reply_date_str, anchor) ==
  ThreadResult(title, url, digits,
               creation_date_str,
               ParseHumanReadableDate(creation_date_str, anchor),
               last_reply_date_str,
               ParseHumanReadableDate(last_reply_date_str, anchor), anchor)

\* The body of the loop over threads (lines 171-212).
ParseThread(thread, anchor) ==
  WithDates(TitleOf(thread), UrlOf(thread), ViewDigits(thread),
            CreationDateStr(thread), LastReplyDateStr(thread), anchor)

\* What a thread adds to self.data.
Appended(r) == IF r.ok THEN <<r.rec>> ELSE <<>>

\* The loop of line 170 under the slip of leaving it at the first thread
\* that raises.
RECURSIVE ParseThreadsAbort(_, _)
ParseThreadsAbort(threads, anchor) ==
  IF threads = <<>> \/ Appended(ParseThread(Head(threads), anchor)) = <<>>
  THEN <<>>
  ELSE Appended(ParseThread(Head(threads), anchor))
         \o ParseThreadsAbort(Tail(threads), anchor)

\* The loop of lines 170-212: the records the threads of a page append.
RECURSIVE ParseThreads(_, _)
ParseThreads(threads, anchor) ==
  IF threads = <<>> THEN <<>>
  ELSE Appended(ParseThread(Head(threads), anchor))
         \o ParseThreads(Tail(threads), anchor)

---------------------------------------------------------------------------
(* KlpbbsScraper._save_to_excel and _get_color_from_value                  *)

HexChars ==
  <<"0", "1", "2", "3", "4", "5", "6", "7", "8", "9", "a", "b", "c", "d", "e", "f">>

\* f'{c:02x}' for 0 <= c <= 255
Hex2(c) == <<HexChars[(c \div 16) + 1], HexChars[(c % 16) + 1]>>

HexColor(rgb) == Hex2(rgb[1]) \o Hex2(rgb[2]) \o Hex2(rgb[3])

MINT_GREEN_RGB == <<102, 187, 106>>
CORAL_RED_RGB == <<239, 83, 80>>

\* int(x) of the quotient n / d, d > 0: truncation towards zero.
TruncDiv(n, d) == IF n >= 0 THEN n \div d ELSE -((-n) \div d)

\* int(start + (end - start) * percentage) with percentage = num / den
Channel(start, end, num, den) == TruncDiv(start * den + (end - start) * num, den)

\* _get_color_from_value interpolating from the end colour to the start colour.
GetColorReversed(value, min_val, max_val, start_color, end_color) ==
  IF max_val = min_val THEN HexColor(start_color)
  ELSE LET num == max_val - value
           den == max_val - min_val
       IN HexColor(<<Channel(start_color[1], end_color[1], num, den),
                     Channel(start_color[2], end_color[2], num, den),
                     Channel(start_color[3], end_color[3], num, den)>>)

\* _get_color_from_value (lines 152-158).  The quotient is taken exactly; the
\* code takes it in double precision.
GetColorFromValue(value, min_val, max_val, start_color, end_color) ==
  IF max_val = min_val THEN HexColor(start_color)
  ELSE LET num == value - min_val
           den == max_val - min_val
       IN HexColor(<<Channel(start_color[1], end_color[1], num, den),
                     Channel(start_color[2], end_color[2], num, den),
                     Channel(start_color[3], end_color[3], num, den)>>)

NoFill == <<"NoFill">>

SetMin(S) == CHOOSE x \in S : \A y \in S : x <= y
SetMax(S) == CHOOSE x \in S : \A y \in S : x >= y

\* Lines 265-272 for one helper column: the fill of each row's visible cell.
ColumnFills(helper) ==
  LET values == {helper[i].val : i \in {j \in 1..Len(helper) : helper[j].fin}}
  IN IF values = {} THEN [i \in 1..Len(helper) |-> NoFill]
     ELSE LET min_val == SetMin(values)
              max_val == SetMax(values)
          IN [i \in 1..Len(helper) |->
                IF helper[i].fin
                THEN GetColorFromValue(helper[i].val, min_val, max_val,
                                       MINT_GREEN_RGB, CORAL_RED_RGB)
                ELSE NoFill]

\* The orders df.sort_values(by=daily_views, ascending=False) can give the
\* rows whose indices are in I, as sequences of indices into rows.  pandas
\* sorts with kind='quicksort', which is not stable: rows of equal
\* daily_views come out in any order.
RECURSIVE SortOrders(_, _)
SortOrders(rows, I) ==
  IF I = {} THEN {<<>>}
  ELSE LET top == {i \in I : \A j \in I : rows[i].daily_views >= rows[j].daily_views}
       IN UNION {{<<i>> \o o : o \in SortOrders(rows, I \ {i})} : i \in top}

\* The workbook _save_to_excel builds from the rows in the given order.
Workbook(rows, order) ==
  LET sorted == [i \in 1..Len(order) |-> rows[order[i]]]
  IN [written |-> TRUE,
      order |-> order,
      rows |-> sorted,
      pub_fill |-> ColumnFills([i \in 1..Len(sorted) |-> sorted[i].pub_days]),
      reply_fill |-> ColumnFills([i \in 1..Len(sorted) |-> sorted[i].reply_hours])]

NoReport ==
  [written |-> FALSE, order |-> <<>>, rows |-> <<>>, pub_fill |-> <<>>,
   reply_fill |-> <<>>]

---------------------------------------------------------------------------
(* Cookie strings (KlpbbsScraper._login_with_cookie, lines 76 and 88-96)   *)

\* The placeholder text of line 76.
Placeholder == <<"zai", "zhe", "li", "zhan", "tie">>

\* not cookie_string or placeholder in cookie_string
CookieInvalid(cookie) == cookie = <<>> \/ Contains(cookie, Placeholder)

\* cookie_string.split('; ')
RECURSIVE SplitItems(_)
SplitItems(s) ==
  IF ~Contains(s, <<";", " ">>) THEN <<s>>
  ELSE LET i == CHOOSE k \in 1..(Len(s) - 1) :
                  /\ s[k] = ";" /\ s[k + 1] = " "
                  /\ \A m \in 1..(k - 1) : ~(s[m] = ";" /\ s[m + 1] = " ")
       IN <<SubSeq(s, 1, i - 1)>> \o SplitItems(SubSeq(s, i + 2, Len(s)))

\* The cookies of lines 89-94: the items with an '=', split at the first one.
RECURSIVE CookieDicts(_)
CookieDicts(items) ==
  IF items = <<>> THEN <<>>
  ELSE LET item == Head(items)
           parts == Split(item, "=")
       IN (IF Len(parts) >= 2
           THEN <<[name |-> Strip(parts[1]),
                   value |-> Strip(SubSeq(item, Len(parts[1]) + 2, Len(item)))]>>
           ELSE <<>>) \o CookieDicts(Tail(items))

---------------------------------------------------------------------------
(* State                                                                   *)

VARIABLES
  pc,             \* where scrape is: setup, login, get, parse, navigate, save,
                  \* except, finally, done
  driver,         \* self.driver: none, open, closed (after quit)
  acquired,       \* how many browser sessions webdriver.Chrome has started
  cookies,        \* the cookies added to the session
  cookie_string,  \* the argument of scrape
  now,            \* self.now
  clock,          \* the wall clock, datetime.now()
  source,         \* the listing pages the site serves
  page,           \* the listing page the browser shows, 0 before the first
  data,           \* self.data
  events,         \* what the run did to the browser and the file system
  err,            \* the exception that ended the try block, or none
  report,         \* the workbook saved
  date_str,       \* the argument of _parse_human_readable_date
  date_res        \* and its result

vars ==
  <<pc, driver, acquired, cookies, cookie_string, now, clock, source, page,
    data, events, err, report, date_str, date_res>>

Event(op, p) == [op |-> op, page |-> p]

---------------------------------------------------------------------------
(* KlpbbsScraper.scrape                                                    *)

\* _setup_driver: webdriver.Chrome starts a session or raises.
SetupDriver ==
  /\ pc = "setup"
  /\ \E started \in BOOLEAN :
       IF started
       THEN /\ driver' = "open"
            /\ acquired' = acquired + 1
            /\ pc' = "login"
            /\ err' = err
       ELSE /\ pc' = "except"
            /\ err' = "driver"
            /\ UNCHANGED <<driver, acquired>>
  /\ UNCHANGED <<cookies, cookie_string, now, clock, source, page, data,
                 events, report, date_str, date_res>>

\* _login_with_cookie with the check of line 76 made after the navigation.
LoginCheckLate ==
  /\ pc = "login"
  /\ events' = Append(events, Event("get_domain", 0))
  /\ IF CookieInvalid(cookie_string)
     THEN pc' = "except" /\ err' = "credential" /\ cookies' = cookies
     ELSE pc' = "get" /\ err' = err
          /\ cookies' = CookieDicts(SplitItems(cookie_string))
  /\ UNCHANGED <<driver, acquired, cookie_string, now, clock, source, page,
                 data, report, date_str, date_res>>

\* _login_with_cookie: ValueError before anything is asked of the browser,
\* else the domain is loaded and the cookies are added; the browser may raise.
LoginWithCookie ==
  /\ pc = "login"
  /\ IF CookieInvalid(cookie_string)
     THEN /\ pc' = "except"
          /\ err' = "credential"
          /\ UNCHANGED <<cookies, events>>
     ELSE /\ events' = Append(events, Event("get_domain", 0))
          /\ \E loaded \in BOOLEAN :
               IF loaded
               THEN /\ cookies' = CookieDicts(SplitItems(cookie_string))
                    /\ pc' = "get"
                    /\ err' = err
               ELSE /\ cookies' = cookies
                    /\ pc' = "except"
                    /\ err' = "login"
  /\ UNCHANGED <<driver, acquired, cookie_string, now, clock, source, page,
                 data, report, date_str, date_res>>

\* self.driver.get(self.base_url), line 299
GetTarget ==
  /\ pc = "get"
  /\ events' = Append(events, Event("get_target", 1))
  /\ \E loaded \in BOOLEAN :
       IF loaded
       THEN page' = 1 /\ pc' = "parse" /\ err' = err
       ELSE page' = page /\ pc' = "except" /\ err' = "get"
  /\ UNCHANGED <<driver, acquired, cookies, cookie_string, now, clock, source,
                 data, report, date_str, date_res>>

\* _parse_page_with_soup under the slip of logging the timeout and returning.
ParsePageSwallow ==
  /\ pc = "parse"
  /\ IF source[page].container
     THEN /\ events' = Append(events, Event("parse", page))
          /\ data' = data \o ParseThreads(source[page].threads, now)
     ELSE /\ events' = Append(events, Event("screenshot", page))
          /\ data' = data
  /\ pc' = "navigate"
  /\ UNCHANGED <<driver, acquired, cookies, cookie_string, now, clock, source,
                 page, err, report, date_str, date_res>>

\* _parse_page_with_soup: the container appears within the wait and the
\* threads of the page are parsed, or TimeoutException: a screenshot, raise.
ParsePage ==
  /\ pc = "parse"
  /\ IF source[page].container
     THEN /\ events' = Append(events, Event("parse", page))
          /\ data' = data \o ParseThreads(source[page].threads, now)
          /\ pc' = "navigate"
          /\ err' = err
     ELSE /\ events' = Append(events, Event("screenshot", page))
          /\ data' = data
          /\ pc' = "except"
          /\ err' = "timeout"
  /\ UNCHANGED <<driver, acquired, cookies, cookie_string, now, clock, source,
                 page, report, date_str, date_res>>

\* _navigate_to_next_page with a click that leaves the browser on its page.
NavigateStale ==
  /\ pc = "navigate"
  /\ IF page < Len(source)
     THEN /\ events' = Append(events, Event("click", page))
          /\ pc' = "parse"
     ELSE /\ events' = events
          /\ pc' = "save"
  /\ UNCHANGED <<driver, acquired, cookies, cookie_string, now, clock, source,
                 page, data, err, report, date_str, date_res>>

\* _navigate_to_next_page and the test of line 305: the control a.nxt is
\* there and is clicked, or NoSuchElementException ends the loop, or the
\* browser raises something else.
NavigateToNextPage ==
  /\ pc = "navigate"
  /\ \E answered \in BOOLEAN :
       IF ~answered
       THEN /\ pc' = "except"
            /\ err' = "navigate"
            /\ UNCHANGED <<events, page>>
       ELSE IF page < Len(source)
       THEN /\ events' = Append(events, Event("click", page))
            /\ page' = page + 1
            /\ pc' = "parse"
            /\ err' = err
       ELSE /\ pc' = "save"
            /\ err' = err
            /\ UNCHANGED <<events, page>>
  /\ UNCHANGED <<driver, acquired, cookies, cookie_string, now, clock, source,
                 data, report, date_str, date_res>>

\* _save_to_excel without the test of line 225.
SaveAlways ==
  /\ pc = "save"
  /\ \E order \in SortOrders(data, 1..Len(data)) :
       /\ report' = Workbook(data, order)
       /\ events' = Append(events, Event("save", 0))
       /\ pc' = "finally"
  /\ UNCHANGED <<driver, acquired, cookies, cookie_string, now, clock, source,
                 page, data, err, date_str, date_res>>

\* _save_to_excel: nothing for no data; else the rows are sorted, styled and
\* saved, or wb.save raises.
SaveToExcel ==
  /\ pc = "save"
  /\ IF data = <<>>
     THEN /\ pc' = "finally"
          /\ UNCHANGED <<report, events, err>>
     ELSE \E order \in SortOrders(data, 1..Len(data)), saved \in BOOLEAN :
            IF saved
            THEN /\ report' = Workbook(data, order)
                 /\ events' = Append(events, Event("save", 0))
                 /\ pc' = "finally"
                 /\ err' = err
            ELSE /\ pc' = "except"
                 /\ err' = "save"
                 /\ UNCHANGED <<report, events>>
  /\ UNCHANGED <<driver, acquired, cookies, cookie_string, now, clock, source,
                 page, data, date_str, date_res>>

\* The except clause of lines 308-310: _take_screenshot, which does nothing
\* without a driver and swallows its own failure.
HandleException ==
  /\ pc = "except"
  /\ IF driver = "none"
     THEN events' = events
     ELSE \E shot \in BOOLEAN :
            events' = IF shot THEN Append(events, Event("screenshot", page))
                      ELSE events
  /\ pc' = "finally"
  /\ UNCHANGED <<driver, acquired, cookies, cookie_string, now, clock, source,
                 page, data, err, report, date_str, date_res>>

\* The clean-up written at the end of the try block instead of in finally.
QuitOnSuccessOnly ==
  /\ pc = "finally"
  /\ IF driver # "none" /\ err = "none"
     THEN driver' = "closed" /\ events' = Append(events, Event("quit", 0))
     ELSE UNCHANGED <<driver, events>>
  /\ pc' = "done"
  /\ UNCHANGED <<acquired, cookies, cookie_string, now, clock, source, page,
                 data, err, report, date_str, date_res>>

\* The finally clause of lines 311-315.
Finally ==
  /\ pc = "finally"
  /\ IF driver # "none"
     THEN driver' = "closed" /\ events' = Append(events, Event("quit", 0))
     ELSE UNCHANGED <<driver, events>>
  /\ pc' = "done"
  /\ UNCHANGED <<acquired, cookies, cookie_string, now, clock, source, page,
                 data, err, report, date_str, date_res>>

Next ==
  \/ SetupDriver
  \/ LoginWithCookie
  \/ GetTarget
  \/ ParsePage
  \/ NavigateToNextPage
  \/ SaveToExcel
  \/ HandleException
  \/ Finally

Done == pc = "done"

---------------------------------------------------------------------------
(* _parse_human_readable_date as the object calls it                       *)

\* The method reading the wall clock where it reads self.now.
NormalizeWallClock(s) == ParseHumanReadableDate(s, clock)

\* self._parse_human_readable_date(s): the anchor is self.now.
Normalize(s) == ParseHumanReadableDate(s, now)

---------------------------------------------------------------------------
(* Inputs                                                                  *)

\* Bounds of the inputs.
MaxPages == 3
MaxThreads == 3
MaxN == 30
MaxTicks == 2

Num(n) == Pad(n, 1)

MinutesAgoStr(n) == Num(n) \o <<" ">> \o MinutesAgo
HoursAgoStr(n) == Num(n) \o <<" ">> \o HoursAgo
DaysAgoStr(n) == Num(n) \o <<" ">> \o DaysAgo
YesterdayStr(H, M) == Yesterday \o <<" ">> \o Pad(H, 2) \o <<":">> \o Pad(M, 2)
DayBeforeStr(H, M) ==
  DayBeforeYesterday \o <<" ">> \o Pad(H, 2) \o <<":">> \o Pad(M, 2)

\* An absolute date as the forum writes it: the month and day unpadded.
AbsDateStr(y, m, d) == Pad(y, 4) \o <<"-">> \o Num(m) \o <<"-">> \o Num(d)
AbsStr(y, m, d, H, M) ==
  AbsDateStr(y, m, d) \o <<" ">> \o Pad(H, 2) \o <<":">> \o Pad(M, 2)

ClockTimes == {<<14, 30>>, <<9, 5>>, <<0, 0>>, <<23, 59>>}

\* Anchors: just after midnight on the day after a leap day, and midday on
\* a new year's day.
AnchorMarch == DateTime(2024, 3, 1, 0, 10, 30)
AnchorNewYear == DateTime(2026, 1, 1, 12, 0, 5)
Anchors == {AnchorMarch, AnchorNewYear}

RelativeInputs ==
  UNION {{MinutesAgoStr(n), HoursAgoStr(n), DaysAgoStr(n)} : n \in 0..MaxN}

DayInputs ==
  UNION {{YesterdayStr(t[1], t[2]), DayBeforeStr(t[1], t[2])} : t \in ClockTimes}

OtherInputs ==
  {AbsStr(2024, 2, 29, 22, 10), AbsDateStr(2023, 12, 31), AbsDateStr(2024, 2, 30),
   NA, <<" ">> \o HoursAgoStr(2) \o <<" ">>, Yesterday \o <<" ">>,
   YesterdayStr(25, 0), <<"ban">> \o HoursAgo, DaysAgoStr(800000)}

DateInputs == RelativeInputs \cup DayInputs \cup OtherInputs

\* A thread of the listing: which tags it has and their text.
Kind(titled, vie, dte, span_title, lastpost) ==
  [titled |-> titled, vie |-> vie, dte |-> dte, span_title |-> span_title,
   lastpost |-> lastpost]

KGood ==
  Kind(TRUE, <<"1", "5", "0">>, DaysAgoStr(3), AbsStr(2024, 2, 29, 22, 10),
       HoursAgoStr(2))
KToday == Kind(TRUE, <<"1", "0", "0">>, MinutesAgoStr(5), NoTag, MinutesAgoStr(5))
KTie == Kind(TRUE, <<"5", "0">>, HoursAgoStr(1), NoTag, NoTag)
KNoTitle ==
  Kind(FALSE, <<"1", ",", "0", "0", "0">>, AbsDateStr(2024, 3, 2), NoTag,
       YesterdayStr(14, 30))
KBadViews == Kind(TRUE, <<"-">>, DaysAgoStr(3), NoTag, HoursAgoStr(2))
KBare == Kind(TRUE, NoTag, NoTag, NoTag, NoTag)
KEighth == Kind(TRUE, <<"3">>, AbsDateStr(2024, 2, 22), NoTag, DaysAgoStr(8))
KOverflow == Kind(TRUE, <<"9">>, DaysAgoStr(800000), NoTag, NoTag)

ThreadKinds ==
  {KGood, KToday, KTie, KNoTitle, KBadViews, KBare, KEighth, KOverflow}

\* The thread of kind k at position i of page p; its title and link name it.
MkThread(k, p, i) ==
  [tit |-> IF k.titled THEN <<" ", "t">> \o Num(p) \o <<"-">> \o Num(i) ELSE NoTag,
   href |-> <<"thread-">> \o Num(p) \o <<"-">> \o Num(i),
   vie |-> k.vie, dte |-> k.dte, span_title |-> k.span_title,
   lastpost |-> k.lastpost]

\* A listing page: its threads, and whether div.c_threadlist ul appears
\* within the wait.
MkPage(kinds, p, container) ==
  [threads |-> [i \in 1..Len(kinds) |-> MkThread(kinds[i], p, i)],
   container |-> container]

\* Page p has the control a.nxt exactly when p < Len(source).
MkSource(pages, failAt) ==
  [p \in 1..Len(pages) |-> MkPage(pages[p], p, p # failAt)]

PageKinds == {<<>>, <<KGood>>, <<KBadViews>>, <<KToday, KBare>>}

\* The sites of the crawl: up to MaxPages pages, one of which may fail to
\* show its list.
Sources ==
  UNION {{MkSource(f, failAt) : f \in [1..k -> PageKinds], failAt \in 0..k} :
           k \in 1..MaxPages}

\* The sites of one page of up to MaxThreads threads of any kinds.
SinglePages ==
  UNION {{MkSource(<<ks>>, 0) : ks \in [1..m -> ThreadKinds]} : m \in 0..MaxThreads}

ValidCookie == <<"a", "=", "1", ";", " ", "b", " ", "=", "2">>

CookieStrings ==
  {<<>>, Placeholder, <<"a", "=">> \o Placeholder \o <<";">>, ValidCookie,
   <<"x">>}

---------------------------------------------------------------------------
(* Specifications                                                          *)

\* The object after __init__ (lines 27-33), scrape not yet called.
Constructed ==
  /\ pc = "setup"
  /\ driver = "none"
  /\ acquired = 0
  /\ cookies = <<>>
  /\ clock = now
  /\ page = 0
  /\ data = <<>>
  /\ events = <<>>
  /\ err = "none"
  /\ report = NoReport
  /\ date_str = <<>>
  /\ date_res = None

\* scrape on any site of Sources with any cookie string.
Init ==
  /\ now = AnchorMarch
  /\ cookie_string \in CookieStrings
  /\ source \in Sources
  /\ Constructed

Spec == Init /\ [][Next]_vars

\* scrape, logged in, on one page of any threads.
InitPage ==
  /\ now = AnchorMarch
  /\ cookie_string = ValidCookie
  /\ source \in SinglePages
  /\ Constructed

SpecPage == InitPage /\ [][Next]_vars

\* The wall clock moves on while the crawl runs.
Tick ==
  /\ clock.sec < now.sec + MaxTicks * 1800
  /\ clock' = [clock EXCEPT !.sec = @ + 1800]
  /\ UNCHANGED <<pc, driver, acquired, cookies, cookie_string, now, source,
                 page, data, events, err, report, date_str, date_res>>

\* One call of _parse_human_readable_date.
ApplyParseDate ==
  /\ \E s \in DateInputs :
       /\ date_str' = s
       /\ date_res' = Normalize(s)
  /\ UNCHANGED <<pc, driver, acquired, cookies, cookie_string, now, clock,
                 source, page, data, events, err, report>>

InitDate ==
  /\ now \in Anchors
  /\ cookie_string = ValidCookie
  /\ source = <<>>
  /\ Constructed

NextDate == Tick \/ ApplyParseDate

SpecDate == InitDate /\ [][NextDate]_vars

---------------------------------------------------------------------------
(* Properties                                                              *)

\* The pages of the events of one operation, in the order they happened.
RECURSIVE PagesOf(_, _)
PagesOf(evs, op) ==
  IF evs = <<>> THEN <<>>
  ELSE (IF Head(evs).op = op THEN <<Head(evs).page>> ELSE <<>>)
         \o PagesOf(Tail(evs), op)

Happened(op) == \E i \in 1..Len(events) : events[i].op = op

Counting(q) == \A i \in 1..Len(q) : q[i] = i

\* The records of pages 1..n of the site, page after page.
RECURSIVE RecordsOfPages(_)
RecordsOfPages(n) ==
  IF n = 0 THEN <<>>
  ELSE RecordsOfPages(n - 1) \o ParseThreads(source[n].threads, now)

AllPagesLoad == \A p \in 1..Len(source) : source[p].container

\* C1: on a site of k pages that all load, where pages 1..k-1 have the
\* next-page control and page k has not, scrape parses pages 1, 2, ... in
\* that order, each once, and self.data holds exactly the records of the
\* pages parsed, page after page; it clicks the control on pages 1, 2, ...
\* and never on page k; the target is fetched once; and when the loop ends
\* without an exception all k pages have been parsed.
C1_LinearTraversal ==
  AllPagesLoad =>
    /\ Counting(PagesOf(events, "parse"))
    /\ Len(PagesOf(events, "parse")) <= Len(source)
    /\ Counting(PagesOf(events, "click"))
    /\ Len(PagesOf(events, "click")) <= Len(source) - 1
    /\ Len(PagesOf(events, "get_target")) <= 1
    /\ data = RecordsOfPages(Len(PagesOf(events, "parse")))
    /\ (pc \in {"save", "finally", "done"} /\ err \in {"none", "save"}
          => PagesOf(events, "parse") = [i \in 1..Len(source) |-> i])

\* A crawl of three pages that ran to its end and saved the report.
C1_Witness ==
  /\ Done /\ err = "none" /\ AllPagesLoad /\ Len(source) = 3
  /\ PagesOf(events, "parse") = <<1, 2, 3>>
  /\ PagesOf(events, "click") = <<1, 2>>
  /\ report.written

\* C2: webdriver.Chrome starts at most one session per call of scrape, and
\* when scrape has ended a session that was started has been quit, whatever
\* ended the try block.
C2_SessionReleased ==
  /\ acquired <= 1
  /\ (driver # "none" => acquired = 1)
  /\ (Done /\ acquired > 0 => driver = "closed")

\* scrape ended by an exception of the browser while advancing from page 2.
C2_Witness ==
  Done /\ err = "navigate" /\ page = 2 /\ acquired = 1 /\ driver = "closed"

\* _parse_page_with_soup has been run on the page shown and its list did not
\* appear.
ListTimedOut == page >= 1 /\ ~source[page].container /\ pc # "parse"

\* C3: once the list of a page has not appeared within the wait, a
\* screenshot of that page has been taken, the run is in its except or
\* finally clause or over, that page is not parsed, nothing but screenshots
\* and the quit of the browser follows, and no report is written.
C3_TimeoutEndsCrawl ==
  ListTimedOut =>
    /\ pc \in {"except", "finally", "done"}
    /\ ~report.written
    /\ \A i \in 1..Len(events) :
         events[i].op = "parse" => events[i].page < page
    /\ \E i \in 1..Len(events) :
         /\ events[i] = Event("screenshot", page)
         /\ \A j \in i..Len(events) : events[j].op \in {"screenshot", "quit"}

\* The list of page 2 did not appear after page 1 had given records.
C3_Witness ==
  /\ Done /\ err = "timeout" /\ page = 2 /\ data # <<>>
  /\ ~source[2].container /\ ~report.written

\* C5: with an empty cookie string, or one that holds the placeholder,
\* scrape asks nothing of the site: the domain is not loaded, the target is
\* not fetched, no page is parsed or advanced, no report is written; once a
\* session is started and the login step is over, the run has failed with
\* the credential error.
C5_CredentialBeforeNetwork ==
  (cookie_string = <<>> \/ Contains(cookie_string, Placeholder)) =>
    /\ \A i \in 1..Len(events) : events[i].op \in {"screenshot", "quit"}
    /\ page = 0
    /\ data = <<>>
    /\ cookies = <<>>
    /\ ~report.written
    /\ (acquired = 1 /\ pc \notin {"setup", "login"} => err = "credential")

\* A cookie string with the placeholder inside it was refused.
C5_Witness ==
  /\ Done /\ err = "credential" /\ driver = "closed"
  /\ cookie_string # <<>> /\ cookie_string # Placeholder

\* C10: when the loop ends with self.data empty, _save_to_excel returns
\* without raising: no report, no screenshot, and the run ends with the
\* session closed.
C10_EmptySkipsReport ==
  (data = <<>> /\ pc \in {"finally", "done"} /\ err \in {"none", "save"}) =>
    /\ err = "none"
    /\ ~report.written
    /\ ~Happened("save")
    /\ ~Happened("screenshot")
    /\ (Done => driver = "closed")

\* Two pages, one without threads and one whose only thread was skipped.
C10_Witness ==
  /\ Done /\ err = "none" /\ data = <<>> /\ Len(source) >= 2
  /\ PagesOf(events, "parse") = [i \in 1..Len(source) |-> i]
  /\ \E p \in 1..Len(source) : source[p].threads # <<>>
  /\ \E p \in 1..Len(source) : source[p].threads = <<>>
  /\ driver = "closed"

\* The threads of the page parsed, and whether it has been parsed.
Listed == source[1].threads

PageParsed == Happened("parse")

\* The thread has a view count and its text has no digit.
NoViewCount(thread) ==
  thread.vie # NoTag /\ \A i \in 1..Len(thread.vie) : ~IsDigit(thread.vie[i])

\* A date of the thread is out of the range of datetime.
DateOutOfRange(thread) ==
  \/ ParseHumanReadableDate(thread.dte, now) = Overflow
  \/ ParseHumanReadableDate(LastReplyDateStr(thread), now) = Overflow

\* The titles a page gives when the threads marked in fails give no record
\* and every other thread gives one.
RECURSIVE TitlesExcept(_, _)
TitlesExcept(threads, fails) ==
  IF threads = <<>> THEN <<>>
  ELSE (IF Head(fails) THEN <<>>
        ELSE <<IF Head(threads).tit = NoTag THEN NA
               ELSE Tail(Head(threads).tit)>>)
         \o TitlesExcept(Tail(threads), Tail(fails))

TitlesOfData == [i \in 1..Len(data) |-> data[i].title]

\* C4 as stated: a thread without a title link, or whose view count has no
\* digit, gives no record, and every other thread of the page gives exactly
\* one, in page order.
C4_MissingTitleSkipped ==
  LET Fails(t) == t.tit = NoTag \/ NoViewCount(t)
  IN PageParsed =>
       TitlesOfData =
         TitlesExcept(Listed, [i \in 1..Len(Listed) |-> Fails(Listed[i])])

\* C4, amended: a thread whose parsing raises (a view count without a digit,
\* a date out of the range of datetime) gives no record and ends neither the
\* page nor the crawl; every other thread gives exactly one record, in page
\* order, and a thread without a title link is one of these: its record has
\* the title 'N/A' and the base URL.
C4_RaisingThreadSkipped ==
  LET Fails(t) == NoViewCount(t) \/ DateOutOfRange(t)
  IN PageParsed =>
       /\ TitlesOfData =
            TitlesExcept(Listed, [i \in 1..Len(Listed) |-> Fails(Listed[i])])
       /\ \A i \in 1..Len(data) : data[i].title = NA => data[i].url = BaseUrl
       /\ err # "timeout"
       /\ (pc \in {"finally", "done"} /\ err = "none" /\ data # <<>>
             => report.written)

\* A page of three threads, the second with a view count without digits,
\* gave the records of the first and the third.
C4_Witness ==
  /\ Done /\ err = "none" /\ Len(Listed) = 3
  /\ NoViewCount(Listed[2])
  /\ TitlesOfData = <<Tail(Listed[1].tit), Tail(Listed[3].tit)>>
  /\ report.written

\* C6 as stated: the rows of the report are in non-increasing order of
\* daily_views, and rows of equal daily_views are in the order in which
\* their records were appended.
C6_StableDescending ==
  report.written =>
    \A i, j \in 1..Len(report.rows) :
      i < j =>
        /\ report.rows[i].daily_views >= report.rows[j].daily_views
        /\ (report.rows[i].daily_views = report.rows[j].daily_views
              => report.order[i] < report.order[j])

\* The whole seconds from creation to the anchor, floored to whole days.
WholeDays(creation) ==
  ((now.ord - creation.ord) * SecondsPerDay + now.sec - creation.sec)
    \div SecondsPerDay

\* C8: every record has views >= 0; when its publication date normalises to
\* a timestamp, daily_views is views divided by the whole days since then,
\* taken as 1 when they are fewer (the same day, a date in the future),
\* rounded to hundredths; when it does not, daily_views is 0 and the helper
\* value of the time since publication is infinite.
C8_DailyViews ==
  \A i \in 1..Len(data) :
    LET creation == ParseHumanReadableDate(data[i].creation_date_str, now)
    IN /\ data[i].views >= 0
       /\ IF creation = None
          THEN data[i].daily_views = 0 /\ data[i].pub_days = Inf
          ELSE /\ data[i].daily_views =
                    RoundHalfEven(100 * data[i].views,
                                  IF WholeDays(creation) < 1 THEN 1
                                  ELSE WholeDays(creation))
               /\ data[i].pub_days.fin

\* Records of a thread dated in the future, of one of the same day, of one
\* eight days old and of one whose date does not parse.
C8_Witness ==
  /\ \E i \in 1..Len(data) :
       data[i].pub_days.fin /\ data[i].pub_days.val < 0
         /\ data[i].daily_views = 100 * data[i].views /\ data[i].views > 0
  /\ \E i \in 1..Len(data) :
       data[i].pub_days.fin /\ data[i].pub_days.val > 8 * SecondsPerDay
         /\ data[i].daily_views = 38
  /\ \E i \in 1..Len(data) : data[i].pub_days = Inf /\ data[i].daily_views = 0

FiniteValues(helper) ==
  {helper[i].val : i \in {j \in 1..Len(helper) : helper[j].fin}}

Between(x, a, b) == (a <= x /\ x <= b) \/ (b <= x /\ x <= a)

HexVal(c) == (CHOOSE i \in 1..16 : HexChars[i] = c) - 1

\* The channels of a colour written as six hexadecimal digits.
Channels(hex) ==
  [k \in 1..3 |-> 16 * HexVal(hex[2 * k - 1]) + HexVal(hex[2 * k])]

\* Each channel of the colour lies between those of the two colours.
IsBetweenColors(hex, a, b) ==
  /\ Len(hex) = 6
  /\ \A k \in 1..3 : Between(Channels(hex)[k], a[k], b[k])

GradientOf(helper, fill) ==
  \A i \in 1..Len(helper) :
    IF ~helper[i].fin THEN fill[i] = NoFill
    ELSE LET lo == SetMin(FiniteValues(helper))
             hi == SetMax(FiniteValues(helper))
         IN /\ (helper[i].val = lo => fill[i] = HexColor(MINT_GREEN_RGB))
            /\ (helper[i].val = hi /\ lo # hi => fill[i] = HexColor(CORAL_RED_RGB))
            /\ IsBetweenColors(fill[i], MINT_GREEN_RGB, CORAL_RED_RGB)

\* C9: in each of the two elapsed-time columns a row with the least finite
\* helper value has the start colour, a row with the greatest has the end
\* colour, every finite value has the start colour when the least and the
\* greatest are equal, every finite value has channels between those of the
\* two colours, and a row with an infinite helper value has no fill.
C9_Gradient ==
  report.written =>
    /\ GradientOf([i \in 1..Len(report.rows) |-> report.rows[i].pub_days],
                  report.pub_fill)
    /\ GradientOf([i \in 1..Len(report.rows) |-> report.rows[i].reply_hours],
                  report.reply_fill)

\* A report of three rows with three publication times, the middle one
\* coloured between the two ends, and a row without a reply date.
C9_Witness ==
  /\ report.written /\ Len(report.rows) = 3
  /\ Cardinality({report.rows[i].pub_days.val : i \in 1..3}) = 3
  /\ \A i \in 1..3 : report.rows[i].pub_days.fin
  /\ \E i \in 1..3 :
       report.pub_fill[i] \notin
         {HexColor(MINT_GREEN_RGB), HexColor(CORAL_RED_RGB), NoFill}
  /\ \E i \in 1..3 :
       ~report.rows[i].reply_hours.fin /\ report.reply_fill[i] = NoFill
  /\ \E i \in 1..3 : report.reply_fill[i] = HexColor(CORAL_RED_RGB)

\* dt plus a number of seconds.
Shifted(dt, seconds) ==
  [ord |-> dt.ord + ((dt.sec + seconds) \div SecondsPerDay),
   sec |-> (dt.sec + seconds) % SecondsPerDay]

=============================================================================
